---- MODULE Spec2Model ----
(***************************************************************************)
(* SHA-1 "explained" (src/javascript/main.js): the Utils helpers working   *)
(* on binary strings and Main.sha1, steps 1 to 14.                         *)
(*                                                                         *)
(* Representation.  A JavaScript string of '0'/'1' or of hex digits is a   *)
(* sequence of one-character strings (<<"0","1">> is '01').  An input      *)
(* string is the sequence of its UTF-16 code units (charCodeAt values).    *)
(* A JavaScript Number holding a non-negative integer is a record          *)
(* [hi, lo] of value hi * 65536 + lo with lo < 65536, because the          *)
(* values handled (up to 2^33) do not fit the integers of TLC.               *)
(***************************************************************************)
EXTENDS Integers, Sequences, FiniteSets, TLC

(***************************************************************************)
(* JavaScript primitives used by the source                                *)
(***************************************************************************)
Base == 256 * 256

Digit == <<"0","1","2","3","4","5","6","7","8","9","a","b","c","d","e","f">>

\* bits[i] of a JavaScript array: undefined past the end (i is 0-based)
At(bits, i) == IF i < Len(bits) THEN bits[i + 1] ELSE "undefined"

\* str.substr(start) and str.substr(start, length)
substr(str, start) == SubSeq(str, start + 1, Len(str))

substr2(str, start, length) ==
    SubSeq(str, start + 1, IF start + length < Len(str) THEN start + length ELSE Len(str))

\* the Number of a small integer
Num(n) == [hi |-> n \div Base, lo |-> n % Base]

\* parseInt(w, 2): left to right, value := 2 * value + bit
RECURSIVE parseIntFrom(_, _, _)
parseIntFrom(w, i, acc) ==
    IF i > Len(w) THEN acc
    ELSE LET t == 2 * acc.lo + (IF w[i] = "1" THEN 1 ELSE 0)
         IN  parseIntFrom(w, i + 1, [hi |-> 2 * acc.hi + t \div Base, lo |-> t % Base])

parseInt(w) == parseIntFrom(w, 1, Num(0))

\* n1 + n2 on Numbers
NumAdd(n1, n2) ==
    LET t == n1.lo + n2.lo
    IN  [hi |-> n1.hi + n2.hi + t \div Base, lo |-> t % Base]

\* the digits of a small integer in a radix, most significant first, no leading zero
RECURSIVE Digits(_, _)
Digits(v, radix) ==
    IF v < radix THEN <<Digit[v + 1]>>
    ELSE Digits(v \div radix, radix) \o <<Digit[(v % radix) + 1]>>

\* exactly `width` digits of v (v < radix^width)
RECURSIVE FixedDigits(_, _, _)
FixedDigits(v, radix, width) ==
    IF width = 0 THEN <<>>
    ELSE FixedDigits(v \div radix, radix, width - 1) \o <<Digit[(v % radix) + 1]>>

\* Number.prototype.toString(radix) for radix 2 and 16
toString(n, radix) ==
    IF n.hi = 0 THEN Digits(n.lo, radix)
    ELSE Digits(n.hi, radix) \o FixedDigits(n.lo, radix, IF radix = 2 THEN 16 ELSE 4)

(***************************************************************************)
(* Utils                                                                   *)
(***************************************************************************)
\* new Array(count + 1).join(str)
getStringXTime(str, count) ==
    [n \in 1..(count * Len(str)) |-> str[((n - 1) % Len(str)) + 1]]

MaxOf(x, y) == IF x > y THEN x ELSE y

xor(w1, w2) ==
    [n \in 1..MaxOf(Len(w1), Len(w2)) |->
        IF At(w1, n - 1) # At(w2, n - 1) /\ (At(w1, n - 1) = "1" \/ At(w2, n - 1) = "1")
        THEN "1" ELSE "0"]

or(w1, w2) ==
    [n \in 1..MaxOf(Len(w1), Len(w2)) |->
        IF At(w1, n - 1) = "1" \/ At(w2, n - 1) = "1" THEN "1" ELSE "0"]

and(w1, w2) ==
    [n \in 1..MaxOf(Len(w1), Len(w2)) |->
        IF At(w1, n - 1) = "1" /\ At(w2, n - 1) = "1" THEN "1" ELSE "0"]

not(w1) == [n \in 1..Len(w1) |-> IF w1[n] = "0" THEN "1" ELSE "0"]

add_nopad(w1, w2, length) ==
    LET binaryResult == toString(NumAdd(parseInt(w1), parseInt(w2)), 2)
    IN  IF Len(binaryResult) > length
        THEN substr(binaryResult, Len(binaryResult) - length)
        ELSE binaryResult

add_keepcarry(w1, w2, length) ==
    LET binaryResult == toString(NumAdd(parseInt(w1), parseInt(w2)), 2)
    IN  IF Len(binaryResult) < length
        THEN getStringXTime(<<"0">>, length - Len(binaryResult)) \o binaryResult
        ELSE substr2(binaryResult, 0, length)

add(w1, w2, length) ==
    LET decimalResult == NumAdd(parseInt(w1), parseInt(w2))
        binaryResult  == toString(decimalResult, 2)
    IN  IF Len(binaryResult) < length
        THEN getStringXTime(<<"0">>, length - Len(binaryResult)) \o binaryResult
        ELSE IF Len(binaryResult) > length
        THEN substr(binaryResult, Len(binaryResult) - length)
        ELSE binaryResult

\* arr.push(arr.splice(0, 1)[0]), count times; splice on an empty array yields
\* undefined, which push appends and join("") renders as the empty string
RECURSIVE rotate(_, _)
rotate(str, count) ==
    IF count = 0 THEN str
    ELSE IF Len(str) = 0 THEN rotate(str, count - 1)
    ELSE rotate(Tail(str) \o <<Head(str)>>, count - 1)

binToHex_nopad(str, length) == toString(parseInt(str), 16)

binToHex_padright(str, length) ==
    LET hex == toString(parseInt(str), 16)
    IN  IF Len(hex) < 8
        THEN hex \o getStringXTime(<<"0">>, length - Len(hex))
        ELSE hex

binToHex(str, length) ==
    LET hex == toString(parseInt(str), 16)
    IN  IF Len(hex) < 8
        THEN getStringXTime(<<"0">>, length - Len(hex)) \o hex
        ELSE hex

(***************************************************************************)
(* Main.sha1, steps 1 to 10 and 14 as functions of their inputs            *)
(***************************************************************************)
\* steps 1 and 2: str.split("") and charCodeAt(0) of each character
step2_to_ascii_code(s) == [n \in 1..Len(s) |-> s[n]]

\* step 3: c.toString(2)
step3_ascii_binary(codes) == [n \in 1..Len(codes) |-> toString(Num(codes[n]), 2)]

\* step 4: left-pad with '0' to 8 characters, longer values are left as they are
step4_ascii_binary_8_length(bins) ==
    [n \in 1..Len(bins) |->
        IF Len(bins[n]) < 8
        THEN getStringXTime(<<"0">>, 8 - Len(bins[n])) \o bins[n]
        ELSE bins[n]]

\* step 5: join("")
RECURSIVE joinRange(_, _, _)
joinRange(parts, lo, hi) ==
    IF lo > hi THEN <<>>
    ELSE IF lo = hi THEN parts[lo]
    ELSE LET mid == (lo + hi) \div 2
         IN  joinRange(parts, lo, mid) \o joinRange(parts, mid + 1, hi)

join(parts) == joinRange(parts, 1, Len(parts))

step5_combine_str(s) ==
    join(step4_ascii_binary_8_length(step3_ascii_binary(step2_to_ascii_code(s))))

step6_append_1(step5) == step5 \o <<"1">>

step7_no_wrap(s) ==
    LET currentModulo == Len(s) % 512
    IN  IF currentModulo < 448
        THEN s \o getStringXTime(<<"0">>, 448 - currentModulo)
        ELSE s

step7_modulo_512_is_448(s) ==
    LET currentModulo == Len(s) % 512
    IN  IF currentModulo < 448
        THEN s \o getStringXTime(<<"0">>, 448 - currentModulo)
        ELSE IF currentModulo > 448
        THEN s \o getStringXTime(<<"0">>, 512 - currentModulo + 448)
        ELSE s

step8_length_32(s, step5) ==
    LET step5BinaryLength == toString(Num(Len(step5)), 2)
    IN  s \o getStringXTime(<<"0">>, 32 - Len(step5BinaryLength)) \o step5BinaryLength

step8_append_step5_length(s, step5) ==
    LET step5BinaryLength == toString(Num(Len(step5)), 2)
    IN  s \o getStringXTime(<<"0">>, 64 - Len(step5BinaryLength)) \o step5BinaryLength

\* while (str.length > 0) { out.push(str.substr(0, size)); str = str.substr(size) }
RECURSIVE splitEvery(_, _)
splitEvery(s, size) ==
    IF Len(s) = 0 THEN <<>>
    ELSE <<substr2(s, 0, size)>> \o splitEvery(substr(s, size), size)

step9_split_512b_chunks(s) == splitEvery(s, 512)

step10_split_32b_words(chunks9) ==
    [n \in 1..Len(chunks9) |-> splitEvery(chunks9[n], 32)]

\* steps 5 to 8 on an input string
padded(s) ==
    LET step5 == step5_combine_str(s)
    IN  step8_append_step5_length(step7_modulo_512_is_448(step6_append_1(step5)), step5)

step11_word_norotate(words, j) ==
    xor(xor(xor(words[j - 3 + 1], words[j - 8 + 1]), words[j - 14 + 1]), words[j - 16 + 1])

\* step 11, one pass of the inner loop: the word pushed at index j
step11_word(words, j) ==
    LET tmp1 == xor(words[j - 3 + 1], words[j - 8 + 1])
        tmp2 == xor(tmp1, words[j - 14 + 1])
        tmp3 == xor(tmp2, words[j - 16 + 1])
    IN  rotate(tmp3, 1)

\* step 12
h0 == <<"0","1","1","0","0","1","1","1","0","1","0","0","0","1","0","1","0","0","1","0","0","0","1","1","0","0","0","0","0","0","0","1">>
h1 == <<"1","1","1","0","1","1","1","1","1","1","0","0","1","1","0","1","1","0","1","0","1","0","1","1","1","0","0","0","1","0","0","1">>
h2 == <<"1","0","0","1","1","0","0","0","1","0","1","1","1","0","1","0","1","1","0","1","1","1","0","0","1","1","1","1","1","1","1","0">>
h3 == <<"0","0","0","1","0","0","0","0","0","0","1","1","0","0","1","0","0","1","0","1","0","1","0","0","0","1","1","1","0","1","1","0">>
h4 == <<"1","1","0","0","0","0","1","1","1","1","0","1","0","0","1","0","1","1","1","0","0","0","0","1","1","1","1","1","0","0","0","0">>

step12_stale(prev) == IF Len(prev) = 5 THEN prev ELSE <<h0, h1, h2, h3, h4>>

\* step 12 declares h0..h4 anew in every call, whatever an earlier call left
step12(prev) == <<h0, h1, h2, h3, h4>>

\* step 13: the round function and the round constant of round i
k_0_19  == <<"0","1","0","1","1","0","1","0","1","0","0","0","0","0","1","0","0","1","1","1","1","0","0","1","1","0","0","1","1","0","0","1">>
k_20_39 == <<"0","1","1","0","1","1","1","0","1","1","0","1","1","0","0","1","1","1","1","0","1","0","1","1","1","0","1","0","0","0","0","1">>
k_40_59 == <<"1","0","0","0","1","1","1","1","0","0","0","1","1","0","1","1","1","0","1","1","1","1","0","0","1","1","0","1","1","1","0","0">>
k_60_79 == <<"1","1","0","0","1","0","1","0","0","1","1","0","0","0","1","0","1","1","0","0","0","0","0","1","1","1","0","1","0","1","1","0">>

round_f_parity(ri, b, c, d) == xor(xor(b, c), d)

round_f(ri, b, c, d) ==
    IF ri < 20 THEN or(and(b, c), and(not(b), d))
    ELSE IF ri < 40 THEN xor(xor(b, c), d)
    ELSE IF ri < 60 THEN xor(xor(and(b, c), and(b, d)), and(c, d))
    ELSE xor(xor(b, c), d)

round_k_shifted(ri) ==
    IF ri <= 20 THEN k_0_19
    ELSE IF ri <= 40 THEN k_20_39
    ELSE IF ri <= 60 THEN k_40_59
    ELSE k_60_79

round_k(ri) ==
    IF ri < 20 THEN k_0_19
    ELSE IF ri < 40 THEN k_20_39
    ELSE IF ri < 60 THEN k_40_59
    ELSE k_60_79

\* step 13, the body of one round after f and k are chosen: the new a, b, c, d, e
round_tmp(r, fv, kv, word) ==
    add(add(add(add(rotate(r[1], 5), fv, 32), r[5], 32), kv, 32), word, 32)

round_regs_late(r, fv, kv, word) ==
    <<round_tmp(r, fv, kv, word), round_tmp(r, fv, kv, word), rotate(r[2], 30), r[3], r[4]>>

round_regs(r, fv, kv, word) ==
    <<round_tmp(r, fv, kv, word), r[1], rotate(r[2], 30), r[3], r[4]>>

working_registers_fresh(hh) == <<h0, h1, h2, h3, h4>>

\* step 13, at the head of the forEach callback: a = h0, ..., e = h4
working_registers(hh) == <<hh[1], hh[2], hh[3], hh[4], hh[5]>>

\* step 13, after the 80 rounds of a chunk
add_back(hh, r) == [n \in 1..5 |-> add(hh[n], r[n], 32)]

\* step 14
step14_finalize(hh) ==
    binToHex(hh[1], 8) \o binToHex(hh[2], 8) \o binToHex(hh[3], 8)
        \o binToHex(hh[4], 8) \o binToHex(hh[5], 8)

(***************************************************************************)
(* Main.sha1 as a state machine: a sequence of calls, each running steps   *)
(* 1 to 10 at entry, step 11 one generated word at a time, step 12, step   *)
(* 13 one round at a time, and step 14 at return.                          *)
(***************************************************************************)
VARIABLES
    pc,         \* where the current call stands
    str,        \* the argument of the current call
    step8,      \* step8_append_step5_length, the padded bit string
    chunks,     \* step10_split_32b_words, grown in place by step 11
    ci,         \* the chunk index: i of step 11, the forEach index of step 13
    j,          \* j of step 11
    h,          \* <<h0, h1, h2, h3, h4>>
    regs,       \* <<a, b, c, d, e>>
    i,          \* the round counter of step 13
    f,          \* f of the last round
    k,          \* k of the last round
    result,     \* the value returned by the last call
    history,    \* the calls returned so far: <<argument, returned value>>
    probe,      \* the arguments of a helper applied on its own
    out         \* what that helper returned

vars == <<pc, str, step8, chunks, ci, j, h, regs, i, f, k, result, history, probe, out>>

\* the number of sha1 calls in a run
MaxCalls == 2

Rep(c, n) == [x \in 1..n |-> c]

Empty      == <<>>
Abc        == <<97, 98, 99>>
HelloWorld == <<72, 101, 108, 108, 111, 32, 87, 111, 114, 108, 100>>
Euro       == <<8364>>

\* the arguments of the calls: the known answers, messages of one block (up
\* to 55 characters), two blocks (56 and 64 characters) and three blocks (120
\* characters), and a character above 255
Inputs == {Empty, Abc, HelloWorld, Rep(97, 56), Rep(97, 64), Rep(97, 120), Euro}

Init ==
    /\ pc = "idle"
    /\ str = <<>>
    /\ step8 = <<>>
    /\ chunks = <<>>
    /\ ci = 0
    /\ j = 16
    /\ h = <<>>
    /\ regs = <<>>
    /\ i = 0
    /\ f = <<>>
    /\ k = <<>>
    /\ result = <<>>
    /\ history = <<>>
    /\ probe = <<>>
    /\ out = <<>>

\* sha1(m) is entered: steps 1 to 10
Call(m) ==
    /\ pc \in {"idle", "done"}
    /\ Len(history) < MaxCalls
    /\ str' = m
    /\ step8' = padded(m)
    /\ chunks' = step10_split_32b_words(step9_split_512b_chunks(step8'))
    /\ ci' = 0
    /\ j' = 16
    /\ pc' = IF Len(chunks') > 0 THEN "step11" ELSE "step12"
    /\ UNCHANGED <<h, regs, i, f, k, result, history, probe, out>>

\* step 11: one more word of chunk ci, and the loop tests that follow it
Step11 ==
    /\ pc = "step11"
    /\ LET words == chunks[ci + 1]
           grown == IF Len(words) < 80 THEN Append(words, step11_word(words, j)) ELSE words
           full  == Len(grown) >= 80
       IN  /\ chunks' = [chunks EXCEPT ![ci + 1] = grown]
           /\ j' = IF full THEN 16 ELSE j + 1
           /\ ci' = IF full THEN ci + 1 ELSE ci
           /\ pc' = IF full /\ ci + 1 >= Len(chunks) THEN "step12" ELSE "step11"
    /\ UNCHANGED <<str, step8, h, regs, i, f, k, result, history, probe, out>>

\* step 12, and the forEach of step 13 is entered
Step12 ==
    /\ pc = "step12"
    /\ h' = step12(h)
    /\ ci' = 0
    /\ pc' = IF Len(chunks) > 0 THEN "begin" ELSE "step14"
    /\ UNCHANGED <<str, step8, chunks, j, regs, i, f, k, result, history, probe, out>>

\* step 13: a, b, c, d, e of chunk ci
Step13Begin ==
    /\ pc = "begin"
    /\ regs' = working_registers(h)
    /\ i' = 0
    /\ pc' = "round"
    /\ UNCHANGED <<str, step8, chunks, ci, j, h, f, k, result, history, probe, out>>

\* step 13: round i of chunk ci
Step13Round ==
    /\ pc = "round"
    /\ i < 80
    /\ f' = round_f(i, regs[2], regs[3], regs[4])
    /\ k' = round_k(i)
    /\ regs' = round_regs(regs, f', k', chunks[ci + 1][i + 1])
    /\ i' = i + 1
    /\ pc' = IF i + 1 < 80 THEN "round" ELSE "addback"
    /\ UNCHANGED <<str, step8, chunks, ci, j, h, result, history, probe, out>>

\* step 13: h0..h4 take the registers in, and forEach moves on
Step13AddBack ==
    /\ pc = "addback"
    /\ h' = add_back(h, regs)
    /\ ci' = ci + 1
    /\ pc' = IF ci + 1 < Len(chunks) THEN "begin" ELSE "step14"
    /\ UNCHANGED <<str, step8, chunks, j, regs, i, f, k, result, history, probe, out>>

\* step 14 and the return
Step14 ==
    /\ pc = "step14"
    /\ result' = step14_finalize(h)
    /\ history' = Append(history, <<str, result'>>)
    /\ pc' = "done"
    /\ UNCHANGED <<str, step8, chunks, ci, j, h, regs, i, f, k, probe, out>>

Next ==
    \/ \E m \in Inputs : Call(m)
    \/ Step11
    \/ Step12
    \/ Step13Begin
    \/ Step13Round
    \/ Step13AddBack
    \/ Step14

Spec == Init /\ [][Next]_vars

(***************************************************************************)
(* Steps 1 to 10 on their own, over every message length up to MaxLen      *)
(***************************************************************************)
\* the longest message padded
MaxLen == 121

Ramp(n) == [x \in 1..n |-> (x * 37) % 256]

PadInputs ==
    {Rep(c, n) : c \in {0, 97, 255, 8364}, n \in 0..MaxLen} \cup {Ramp(n) : n \in 0..MaxLen}

InitPad ==
    /\ pc = "pad"
    /\ str \in PadInputs
    /\ step8 = <<>>
    /\ chunks = <<>>
    /\ ci = 0
    /\ j = 16
    /\ h = <<>>
    /\ regs = <<>>
    /\ i = 0
    /\ f = <<>>
    /\ k = <<>>
    /\ result = <<>>
    /\ history = <<>>
    /\ probe = <<>>
    /\ out = <<>>

\* steps 1 to 8
Pad ==
    /\ pc = "pad"
    /\ step8' = padded(str)
    /\ pc' = "split"
    /\ UNCHANGED <<str, chunks, ci, j, h, regs, i, f, k, result, history, probe, out>>

\* steps 9 and 10
Split ==
    /\ pc = "split"
    /\ chunks' = step10_split_32b_words(step9_split_512b_chunks(step8))
    /\ pc' = "words"
    /\ UNCHANGED <<str, step8, ci, j, h, regs, i, f, k, result, history, probe, out>>

NextPad == Pad \/ Split

SpecPad == InitPad /\ [][NextPad]_vars

(***************************************************************************)
(* The round function and constant of step 13 on their own                 *)
(***************************************************************************)
\* the 32-bit binary string of value hi * 65536 + lo
WordOf(hi, lo) == FixedDigits(hi, 2, 16) \o FixedDigits(lo, 2, 16)

\* b, c, d: between them every combination of three bits, and the extremes
SampleWords ==
    { WordOf(0, 0), WordOf(65535, 65535), WordOf(61680, 61680),
      WordOf(52428, 52428), WordOf(43690, 43690), h1, k_40_59 }

InitF ==
    /\ pc = "f"
    /\ probe \in [ri : 0..79, b : SampleWords, c : SampleWords, d : SampleWords]
    /\ out = <<>>
    /\ str = <<>>
    /\ step8 = <<>>
    /\ chunks = <<>>
    /\ ci = 0
    /\ j = 16
    /\ h = <<>>
    /\ regs = <<>>
    /\ i = 0
    /\ f = <<>>
    /\ k = <<>>
    /\ result = <<>>
    /\ history = <<>>

\* the if / else if chain at the head of a round
ChooseF ==
    /\ pc = "f"
    /\ out' = [f |-> round_f(probe.ri, probe.b, probe.c, probe.d), k |-> round_k(probe.ri)]
    /\ pc' = "f_done"
    /\ UNCHANGED <<str, step8, chunks, ci, j, h, regs, i, f, k, result, history, probe>>

NextF == ChooseF

SpecF == InitF /\ [][NextF]_vars

(***************************************************************************)
(* Utils.add on its own, next to the calls of sha1 that use it             *)
(***************************************************************************)
\* 16-bit halves: zero, one, the sign bit, the half boundaries, all ones,
\* and the halves of h0 and of the first round constant
SampleHalves == {0, 1, 32768, 32767, 65535, 26437, 8961, 23170, 31129}

InitAdd ==
    /\ pc = "add"
    /\ probe \in [hi1 : SampleHalves, lo1 : SampleHalves, hi2 : SampleHalves, lo2 : SampleHalves]
    /\ out = <<>>
    /\ str = <<>>
    /\ step8 = <<>>
    /\ chunks = <<>>
    /\ ci = 0
    /\ j = 16
    /\ h = <<>>
    /\ regs = <<>>
    /\ i = 0
    /\ f = <<>>
    /\ k = <<>>
    /\ result = <<>>
    /\ history = <<>>

\* Utils.add(w1, w2, 32)
Add32 ==
    /\ pc = "add"
    /\ out' = add(WordOf(probe.hi1, probe.lo1), WordOf(probe.hi2, probe.lo2), 32)
    /\ pc' = "add_done"
    /\ UNCHANGED <<str, step8, chunks, ci, j, h, regs, i, f, k, result, history, probe>>

NextAdd == Add32 \/ Next

SpecAdd == (Init \/ InitAdd) /\ [][NextAdd]_vars

(***************************************************************************)
(* Step 14 on its own, over final states with and without leading zeros    *)
(***************************************************************************)
\* <<hi, lo>> of 0x00000000, 0x00000001, 0x0000FFFF, 0x0098BA82, 0x0FFFFFFF,
\* 0xFFFFFFFF and 0x67452301
SampleRegisters ==
    { <<0, 0>>, <<0, 1>>, <<0, 65535>>, <<152, 47746>>, <<4095, 65535>>,
      <<65535, 65535>>, <<26437, 8961>> }

InitFinal ==
    /\ pc = "final"
    /\ probe \in [1..5 -> SampleRegisters]
    /\ out = <<>>
    /\ str = <<>>
    /\ step8 = <<>>
    /\ chunks = <<>>
    /\ ci = 0
    /\ j = 16
    /\ h = <<>>
    /\ regs = <<>>
    /\ i = 0
    /\ f = <<>>
    /\ k = <<>>
    /\ result = <<>>
    /\ history = <<>>

\* step 14 on h0..h4 of the given values
Finalize ==
    /\ pc = "final"
    /\ out' = step14_finalize([n \in 1..5 |-> WordOf(probe[n][1], probe[n][2])])
    /\ pc' = "final_done"
    /\ UNCHANGED <<str, step8, chunks, ci, j, h, regs, i, f, k, result, history, probe>>

NextFinal == Finalize

SpecFinal == InitFinal /\ [][NextFinal]_vars

(***************************************************************************)
(* Properties                                                              *)
(***************************************************************************)
HexDigits == {Digit[n] : n \in 1..16}

IsWord32(w) == Len(w) = 32 /\ \A n \in 1..32 : w[n] \in {"0", "1"}

Returned == {history[n] : n \in 1..Len(history)}

\* da39a3ee5e6b4b0d3255bfef95601890afd80709
DigestEmpty ==
    <<"d","a","3","9","a","3","e","e","5","e","6","b","4","b","0","d","3","2","5","5","b","f","e","f","9","5","6","0","1","8","9","0","a","f","d","8","0","7","0","9">>

\* a9993e364706816aba3e25717850c26c9cd0d89, the 39 characters listed for "abc"
ListedAbc ==
    <<"a","9","9","9","3","e","3","6","4","7","0","6","8","1","6","a","b","a","3","e","2","5","7","1","7","8","5","0","c","2","6","c","9","c","d","0","d","8","9">>

\* a9993e364706816aba3e25717850c26c9cd0d89d
DigestAbc == ListedAbc \o <<"d">>

\* C1: sha1 of the empty string returns da39a3ee5e6b4b0d3255bfef95601890afd80709,
\* in every call, whatever was hashed before.
C1_EmptyDigest == \A r \in Returned : r[1] = Empty => r[2] = DigestEmpty

C1_Witness == pc = "done" /\ str = Empty /\ result = DigestEmpty /\ Len(history) = 1

\* C2 as stated: sha1 of "abc" returns the 39 characters
\* a9993e364706816aba3e25717850c26c9cd0d89, character for character.
C2_AbcListed == \A r \in Returned : r[1] = Abc => r[2] = ListedAbc

\* C2, amended: sha1 of "abc" returns the 40 characters
\* a9993e364706816aba3e25717850c26c9cd0d89d, of which the listed value is the
\* first 39.
C2_AbcDigest == \A r \in Returned : r[1] = Abc => r[2] = DigestAbc

C2_Witness == pc = "done" /\ str = Abc /\ Len(result) = 40 /\ SubSeq(result, 1, 39) = ListedAbc

\* C3: every call returns exactly 40 hexadecimal digits (20 bytes), for the
\* empty string, for one-block and two-block messages, and for a digest whose
\* registers start with zero digits.
C3_DigestLength ==
    /\ \A r \in Returned : Len(r[2]) = 40 /\ \A n \in 1..Len(r[2]) : r[2][n] \in HexDigits
    /\ pc = "done" => Len(result) = 40

C3_Witness ==
    /\ pc = "done"
    /\ str = Rep(97, 64)
    /\ Len(chunks) = 2
    /\ Len(result) = 40
    /\ result[1] = "0" /\ result[2] = "0"

\* C4: every call starts its first chunk with h0..h4 equal to 0x67452301,
\* 0xEFCDAB89, 0x98BADCFE, 0x10325476, 0xC3D2E1F0, whatever the earlier calls
\* left, and two calls with the same argument return the same digest.
C4_NoStateBetweenCalls ==
    /\ (pc = "begin" /\ ci = 0) =>
          h = << WordOf(26437, 8961), WordOf(61389, 43913), WordOf(39098, 56574),
                 WordOf(4146, 21622), WordOf(50130, 57840) >>
    /\ \A r1, r2 \in Returned : r1[1] = r2[1] => r1[2] = r2[2]

C4_Witness ==
    /\ pc = "done"
    /\ Len(history) = 2
    /\ history[1][1] = history[2][1]
    /\ history[1][2] = history[2][2]

\* C5: for every message, the empty one included, the padded bit string of
\* steps 6 to 8 is a positive multiple of 512 bits long, step 9 yields at least
\* one chunk, and every chunk is 16 words of 32 bits (512 bits).
C5_PaddedLength ==
    /\ pc \in {"split", "words"} => Len(step8) % 512 = 0 /\ Len(step8) >= 512
    /\ pc = "words" =>
          /\ Len(chunks) >= 1
          /\ Len(chunks) * 512 = Len(step8)
          /\ \A c \in 1..Len(chunks) :
                /\ Len(chunks[c]) = 16
                /\ \A w \in 1..16 : Len(chunks[c][w]) = 32

C5_Witness ==
    /\ pc = "words"
    /\ str = Empty
    /\ Len(step8) = 512
    /\ Len(chunks) = 1
    /\ Len(chunks[1]) = 16

\* bit p (1 is the most significant) of a value written on `width` bits
BitOf(v, p, width) == IF width - p >= 31 THEN 0 ELSE (v \div (2 ^ (width - p))) % 2

Ch(v) == IF v = 1 THEN "1" ELSE "0"

\* the padding of FIPS 180 for a message of bytes: the message bits, a 1, k
\* zeros with 8n + 1 + k = 448 mod 512 and k least, the bit length on 64 bits
ZeroCount(n) == CHOOSE z \in 0..511 : (8 * n + 1 + z) % 512 = 448

ExpectedPadding(s) ==
    LET n == Len(s)
        z == ZeroCount(n)
    IN  [p \in 1..(8 * n + 1 + z + 64) |->
            IF p <= 8 * n THEN Ch(BitOf(s[((p - 1) \div 8) + 1], ((p - 1) % 8) + 1, 8))
            ELSE IF p = 8 * n + 1 THEN "1"
            ELSE IF p <= 8 * n + 1 + z THEN "0"
            ELSE Ch(BitOf(8 * n, p - (8 * n + 1 + z), 64))]

\* C6: for a message of n bytes (code points 0..255) the padded bit string is
\* the 8n message bits, a single 1, the least k >= 0 zeros that make
\* 8n + 1 + k = 448 mod 512, and 8n as a 64-bit big-endian integer; 55 bytes pad
\* to one block, 56 and 64 bytes to two.
C6_PaddingLayout ==
    (pc \in {"split", "words"} /\ \A x \in 1..Len(str) : str[x] <= 255) =>
        /\ step8 = ExpectedPadding(str)
        /\ Len(str) = 55 => Len(step8) = 512
        /\ Len(str) \in {56, 64} => Len(step8) = 1024

C6_Witness ==
    /\ pc = "split"
    /\ str = Rep(255, 56)
    /\ Len(step8) = 1024
    /\ step8[449] = "1"
    /\ step8[1015] = "0"
    /\ step8[1016] = "1"

\* 1 for '1', 0 for '0'
Bit(w, p) == IF w[p] = "1" THEN 1 ELSE 0

\* rotate_left(w, n) on a 32-bit word: bit p of the result is bit p + n of w
Rotl(w, n) == [p \in 1..32 |-> w[((p - 1 + n) % 32) + 1]]

\* w1 xor w2 xor w3 xor w4, bit by bit
Xor4(w1, w2, w3, w4) ==
    [p \in 1..32 |-> Ch((Bit(w1, p) + Bit(w2, p) + Bit(w3, p) + Bit(w4, p)) % 2)]

\* the schedule of chunk c is 80 words of 32 bits: the sixteen words of block
\* c of the padded string, then the recurrence on the stored words
ScheduleOf(c) ==
    LET W == chunks[c]
    IN  /\ Len(W) = 80
        /\ \A t \in 0..79 : Len(W[t + 1]) = 32
        /\ \A t \in 0..15 :
              W[t + 1] = SubSeq(step8, 512 * (c - 1) + 32 * t + 1, 512 * (c - 1) + 32 * t + 32)
        /\ \A t \in 16..79 :
              W[t + 1] = Rotl(Xor4(W[t - 3 + 1], W[t - 8 + 1], W[t - 14 + 1], W[t - 16 + 1]), 1)

\* C7: when step 11 is done, every chunk holds exactly 80 words of 32 bits,
\* W[0..15] the block's words unchanged and W[t] = rotate_left(W[t-3] xor
\* W[t-8] xor W[t-14] xor W[t-16], 1) over the stored words for t in 16..79;
\* the schedule is still that when step 13 is done.
C7_Schedule ==
    pc \in {"step12", "step14"} => \A c \in 1..Len(chunks) : ScheduleOf(c)

C7_Witness ==
    /\ pc = "step12"
    /\ str = Rep(97, 56)
    /\ Len(chunks) = 2
    /\ Len(chunks[2]) = 80
    /\ chunks[2][16] = WordOf(0, 448)
    /\ chunks[2][80] # WordOf(0, 0)

\* the round functions as the claim writes them, on bits
ChBit(B, C, D)  == IF B * C = 1 \/ (1 - B) * D = 1 THEN 1 ELSE 0
ParBit(B, C, D) == (B + C + D) % 2
MajBit(B, C, D) == IF B * C = 1 \/ B * D = 1 \/ C * D = 1 THEN 1 ELSE 0

ExpectedF(t, b, c, d) ==
    [p \in 1..32 |->
        Ch(IF t <= 19 THEN ChBit(Bit(b, p), Bit(c, p), Bit(d, p))
           ELSE IF t <= 39 THEN ParBit(Bit(b, p), Bit(c, p), Bit(d, p))
           ELSE IF t <= 59 THEN MajBit(Bit(b, p), Bit(c, p), Bit(d, p))
           ELSE ParBit(Bit(b, p), Bit(c, p), Bit(d, p)))]

\* 0x5A827999, 0x6ED9EBA1, 0x8F1BBCDC, 0xCA62C1D6
ExpectedK(t) ==
    IF t <= 19 THEN WordOf(23170, 31129)
    ELSE IF t <= 39 THEN WordOf(28377, 60321)
    ELSE IF t <= 59 THEN WordOf(36635, 48348)
    ELSE WordOf(51810, 49622)

\* C8: in round t, for all b, c, d: t in 0..19 uses f = (b AND c) OR ((NOT b)
\* AND d) and k = 0x5A827999; 20..39 f = b XOR c XOR d, k = 0x6ED9EBA1; 40..59
\* f = (b AND c) OR (b AND d) OR (c AND d), k = 0x8F1BBCDC; 60..79 f = b XOR c
\* XOR d, k = 0xCA62C1D6.
C8_RoundFunction ==
    pc = "f_done" =>
        /\ out.f = ExpectedF(probe.ri, probe.b, probe.c, probe.d)
        /\ out.k = ExpectedK(probe.ri)

C8_Witness ==
    /\ pc = "f_done"
    /\ probe.ri = 40
    /\ probe.b = WordOf(61680, 61680)
    /\ probe.c = WordOf(52428, 52428)
    /\ probe.d = WordOf(43690, 43690)
    /\ out.f = WordOf(59624, 59624)
    /\ out.k = WordOf(36635, 48348)

\* the value of the 16 bits of w from position `first` on
RECURSIVE HalfValue(_, _, _)
HalfValue(w, first, n) ==
    IF n = 0 THEN 0 ELSE 2 * HalfValue(w, first, n - 1) + Bit(w, first + n - 1)

Hi(w) == HalfValue(w, 1, 16)
Lo(w) == HalfValue(w, 17, 16)

\* the sum modulo 2^32 of five 32-bit words
Sum5(w1, w2, w3, w4, w5) ==
    LET lo == Lo(w1) + Lo(w2) + Lo(w3) + Lo(w4) + Lo(w5)
        hi == Hi(w1) + Hi(w2) + Hi(w3) + Hi(w4) + Hi(w5) + lo \div Base
    IN  WordOf(hi % Base, lo % Base)

\* C9: a round computes temp = rotate_left(a, 5) + f + e + k + W[t] and then
\* e = old d, d = old c, c = rotate_left(old b, 30), b = old a, a = temp, all
\* read from the registers at the start of the round; the rounds of a chunk
\* start at t = 0, use W[0], W[1], ..., W[79] in that order and are 80.
C9_Round ==
    [][ /\ pc = "round" =>
             /\ i \in 0..79
             /\ i' = i + 1
             /\ regs' = << Sum5(Rotl(regs[1], 5), f', regs[5], k', chunks[ci + 1][i + 1]),
                           regs[1], Rotl(regs[2], 30), regs[3], regs[4] >>
             /\ pc' = IF i = 79 THEN "addback" ELSE "round"
        /\ (pc # "round" /\ pc' = "round") => (i' = 0 /\ regs' = h)
        /\ pc' = "addback" => i' = 80
      ]_vars

C9_Witness == pc = "addback" /\ i = 80 /\ ci = 1 /\ Len(chunks) = 2 /\ regs # h

\* C10: Utils.add(w1, w2, 32) returns exactly 32 bits of value (w1 + w2) mod
\* 2^32, the carry out of bit 31 dropped and short sums left-padded with
\* zeros; the registers of every round and h0..h4 stay 32-bit words.
C10_AddMod32 ==
    /\ pc = "add_done" =>
          /\ Len(out) = 32
          /\ out = WordOf((probe.hi1 + probe.hi2 + (probe.lo1 + probe.lo2) \div Base) % Base,
                          (probe.lo1 + probe.lo2) % Base)
    /\ \A n \in 1..Len(regs) : IsWord32(regs[n])
    /\ \A n \in 1..Len(h) : IsWord32(h[n])

C10_Witness ==
    /\ pc = "add_done"
    /\ probe = [hi1 |-> 65535, lo1 |-> 65535, hi2 |-> 65535, lo2 |-> 65535]
    /\ out = WordOf(65535, 65534)

\* the number of 512-bit blocks of the padded string
BlockCount == Len(step8) \div 512

\* word t (0..15) of block c (0-based) of the padded string
BlockWord(c, t) == SubSeq(step8, 512 * c + 32 * t + 1, 512 * c + 32 * t + 32)

InitialH ==
    << WordOf(26437, 8961), WordOf(61389, 43913), WordOf(39098, 56574),
       WordOf(4146, 21622), WordOf(50130, 57840) >>

\* C11: for a message padded to N blocks the compressor runs exactly N times,
\* on blocks 1, 2, ..., N in their original order, none skipped or repeated;
\* the working registers of block i start from the h0..h4 left by block i - 1
\* (the initial constants for block 1); and the 80-word schedule of a block is
\* complete before the first round of that block.
C11_BlockOrder ==
    [][ \* the compression of a block starts: the first block after step 12, from
        \* the constants, block ci + 2 after the add-back of block ci + 1
        /\ (pc # "begin" /\ pc' = "begin") =>
              \/ pc = "step12" /\ ci' = 0 /\ h' = InitialH
              \/ pc = "addback" /\ ci' = ci + 1
        /\ pc' = "begin" => ci' < BlockCount'
        \* its registers are the h0..h4 of that moment, its schedule is complete
        /\ pc = "begin" =>
              /\ regs' = h
              /\ Len(chunks[ci + 1]) = 80
              /\ pc' = "round"
              /\ UNCHANGED <<ci, h, chunks, step8>>
        \* its rounds read the words of block ci + 1, and leave h0..h4 alone
        /\ pc = "round" =>
              /\ UNCHANGED <<ci, h, chunks, step8>>
              /\ i < 16 =>
                    regs'[1] = Sum5(Rotl(regs[1], 5), f', regs[5], k', BlockWord(ci, i))
        \* its add-back is the only change of h0..h4, and moves to the next block
        /\ pc = "addback" =>
              /\ h' = [n \in 1..5 |-> Sum5(h[n], regs[n], WordOf(0, 0), WordOf(0, 0), WordOf(0, 0))]
              /\ ci' = ci + 1
              /\ pc' = IF ci + 1 = BlockCount THEN "step14" ELSE "begin"
              /\ UNCHANGED <<chunks, step8>>
        \* step 14 is reached when exactly N blocks are compressed
        /\ pc' = "step14" => ci' = BlockCount' /\ BlockCount' >= 1
      ]_vars

C11_Witness ==
    /\ pc = "step14"
    /\ str = Rep(97, 120)
    /\ BlockCount = 3
    /\ ci = 3
    /\ h # InitialH

\* hex digit p (1 is the most significant) of the 8 digits of hi * 65536 + lo
HexDigitOf(hi, lo, p) ==
    LET half == IF p <= 4 THEN hi ELSE lo
    IN  Digit[((half \div (16 ^ (3 - ((p - 1) % 4)))) % 16) + 1]

\* C12: for every final h0..h4, values with leading zero hex digits included,
\* step 14 returns h0, h1, h2, h3, h4 in that order, each written big-endian
\* on exactly 8 hexadecimal digits with its leading zeros kept.
C12_Finalize ==
    pc = "final_done" =>
        /\ Len(out) = 40
        /\ \A q \in 1..40 :
              out[q] = HexDigitOf(probe[((q - 1) \div 8) + 1][1],
                                  probe[((q - 1) \div 8) + 1][2],
                                  ((q - 1) % 8) + 1)

C12_Witness ==
    /\ pc = "final_done"
    /\ probe = << <<0, 0>>, <<152, 47746>>, <<0, 1>>, <<65535, 65535>>, <<4095, 65535>> >>
    /\ SubSeq(out, 1, 16) =
          <<"0","0","0","0","0","0","0","0","0","0","9","8","b","a","8","2">>
    /\ SubSeq(out, 17, 24) = <<"0","0","0","0","0","0","0","1">>
    /\ out[33] = "0" /\ out[34] = "f"

====
